---- MODULE Spec2Model ----
(***************************************************************************)
(* dlt-kraken: the DLT record iterator (src/dlt.rs), the header decoders   *)
(* (src/dlt/headers.rs), the verbose payload decoder (src/dlt/payload.rs), *)
(* the filter engine (src/dlt/filter.rs), the output descriptor and the    *)
(* configuration glue (src/lib.rs), and the driver loop run_dlt.           *)
(*                                                                         *)
(* Bytes are the integers 0..255.  Text (identifiers, payload strings,     *)
(* pattern sources, output lines) is a sequence of bytes.  An integer      *)
(* wider than 16 bits is kept as its digits base 256, most significant     *)
(* first ("word"), so that every width of the program is exact.            *)
(* Option<T> is a sequence of length 0 (None) or 1 (Some).                 *)
(***************************************************************************)
EXTENDS Integers, Sequences, FiniteSets, TLC

VARIABLES input_file, cfg, data, index, filters, output, pc, msg, start_index, rec, captures, stdout, panic

vars == <<input_file, cfg, data, index, filters, output, pc, msg, start_index, rec, captures, stdout, panic>>

(***************************************************************************)
(* Text and bytes                                                          *)
(***************************************************************************)
Printable ==
  <<" ", "!", "\"", "#", "$", "%", "&", "'", "(", ")", "*", "+", ",", "-", ".", "/",
    "0", "1", "2", "3", "4", "5", "6", "7", "8", "9", ":", ";", "<", "=", ">", "?",
    "@", "A", "B", "C", "D", "E", "F", "G", "H", "I", "J", "K", "L", "M", "N", "O",
    "P", "Q", "R", "S", "T", "U", "V", "W", "X", "Y", "Z", "[", "\\", "]", "^", "_",
    "(grave)", "a", "b", "c", "d", "e", "f", "g", "h", "i", "j", "k", "l", "m", "n", "o",
    "p", "q", "r", "s", "t", "u", "v", "w", "x", "y", "z", "{", "|", "}", "~">>

\* The ASCII code of a one-character string.
Code(c) == 31 + (CHOOSE i \in 1..Len(Printable) : Printable[i] = c)

\* The bytes of a text given as a tuple of one-character strings.
S(t) == [i \in 1..Len(t) |-> Code(t[i])]

None == <<>>
Some(x) == <<x>>
IsSome(o) == Len(o) = 1
Unwrap(o) == o[1]

RECURSIVE Concat(_)
Concat(ss) == IF ss = <<>> THEN <<>> ELSE Head(ss) \o Concat(Tail(ss))

Reverse(s) == [i \in 1..Len(s) |-> s[Len(s) + 1 - i]]

\* Rust's data[from..to]: 0-based, half-open; the caller checks InRange first.
InRange(d, from, to) == from <= to /\ to <= Len(d)
Slice(d, from, to) == SubSeq(d, from + 1, to)

\* str::trim_matches(char::from(0)): NUL characters are removed from BOTH ends.
RECURSIVE TrimStart(_)
TrimStart(s) == IF s # <<>> /\ Head(s) = 0 THEN TrimStart(Tail(s)) ELSE s

RECURSIVE TrimEnd(_)
TrimEnd(s) == IF s # <<>> /\ s[Len(s)] = 0 THEN TrimEnd(SubSeq(s, 1, Len(s) - 1)) ELSE s

trim_matches_nul(s) == TrimEnd(TrimStart(s))

\* str::from_utf8: whether the bytes are well-formed UTF-8.
IsCont(b, i) == i <= Len(b) /\ b[i] \in 128..191

RECURSIVE Utf8From(_, _)
Utf8From(b, i) ==
  IF i > Len(b) THEN TRUE
  ELSE IF b[i] < 128 THEN Utf8From(b, i + 1)
  ELSE IF b[i] \in 194..223 THEN IsCont(b, i + 1) /\ Utf8From(b, i + 2)
  ELSE IF b[i] = 224 THEN i + 1 <= Len(b) /\ b[i + 1] \in 160..191 /\ IsCont(b, i + 2) /\ Utf8From(b, i + 3)
  ELSE IF b[i] = 237 THEN i + 1 <= Len(b) /\ b[i + 1] \in 128..159 /\ IsCont(b, i + 2) /\ Utf8From(b, i + 3)
  ELSE IF b[i] \in 225..239 THEN IsCont(b, i + 1) /\ IsCont(b, i + 2) /\ Utf8From(b, i + 3)
  ELSE IF b[i] = 240 THEN i + 1 <= Len(b) /\ b[i + 1] \in 144..191 /\ IsCont(b, i + 2) /\ IsCont(b, i + 3) /\ Utf8From(b, i + 4)
  ELSE IF b[i] \in 241..243 THEN IsCont(b, i + 1) /\ IsCont(b, i + 2) /\ IsCont(b, i + 3) /\ Utf8From(b, i + 4)
  ELSE IF b[i] = 244 THEN i + 1 <= Len(b) /\ b[i + 1] \in 128..143 /\ IsCont(b, i + 2) /\ IsCont(b, i + 3) /\ Utf8From(b, i + 4)
  ELSE FALSE

from_utf8_ok(b) == Utf8From(b, 1)

\* u16::from_be_bytes as a number (at most 65535).
u16_from_be_bytes(b) == b[1] * 256 + b[2]

\* ByteConverter::<type>_from_bytes: the value as a word (digits base 256, most
\* significant first) from its bytes in the converter's order.
from_be_bytes(b) == b
from_le_bytes(b) == Reverse(b)
\* A converter that reads every buffer as big-endian.
from_bytes_as_big_endian(big_endian, b) == b

from_bytes(big_endian, b) == IF big_endian THEN from_be_bytes(b) ELSE from_le_bytes(b)

\* The number a word of at most two significant digits stands for (u16 as usize).
WordToNat(w) == IF Len(w) = 1 THEN w[1] ELSE w[Len(w) - 1] * 256 + w[Len(w)]

\* is_bit_set!(value, mask), i.e. value & mask == mask, for a one-bit mask.
is_bit_set(value, mask) == ((value \div mask) % 2) = 1

\* The low 24 bits of a 32-bit word, as a number: every mask of the type-info
\* word lies within them.
Low24(w) == w[Len(w) - 2] * 65536 + w[Len(w) - 1] * 256 + w[Len(w)]

(***************************************************************************)
(* Header decoders (src/dlt/headers.rs).  A decoder returns either         *)
(* [panic |-> kind] (the Rust code panics: a slice or index out of range,  *)
(* the explicit panic!() on a bad storage pattern, unwrap() of a UTF-8     *)
(* error) or [panic |-> "", index |-> the iterator's new index, hdr |-> .].*)
(***************************************************************************)
Panic(kind) == [panic |-> kind]

DLT_PATTERN_SIZE == 4
ECU_NAME_SIZE == 4
ECU_ID_SIZE == 4
APP_ID_SIZE == 4
CONTEXT_ID_SIZE == 4
SIZE_U8 == 1
SIZE_U16 == 2
SIZE_U32 == 4
DLT_STORAGE_START_PATTERN == <<68, 76, 84, 1>>

HTYP_EXTENDED_HEADER_BIT_MASK == 1
HTYP_MSB_FIRST_BIT_MASK == 2
HTYP_ECU_ID_BIT_MASK == 4
HTYP_SESSION_ID_BIT_MASK == 8
HTYP_TIMESTAMP_BIT_MASK == 16
MSG_INFO_VERBOSE_BIT_MASK == 1

read_storage_header(d, idx) ==
  LET p0 == idx
      p1 == p0 + DLT_PATTERN_SIZE
      p2 == p1 + SIZE_U32
      p3 == p2 + SIZE_U32
      p4 == p3 + ECU_NAME_SIZE
  IN  IF ~InRange(d, p0, p1) THEN Panic("IndexOutOfBounds")
      ELSE IF Slice(d, p0, p1) # DLT_STORAGE_START_PATTERN THEN Panic("BadMagic")
      ELSE IF ~InRange(d, p1, p2) THEN Panic("IndexOutOfBounds")
      ELSE IF ~InRange(d, p2, p3) THEN Panic("IndexOutOfBounds")
      ELSE IF ~InRange(d, p3, p4) THEN Panic("IndexOutOfBounds")
      ELSE IF ~from_utf8_ok(Slice(d, p3, p4)) THEN Panic("Utf8Error")
      ELSE [panic |-> "", index |-> p4,
            hdr |-> [timestamp_sec |-> from_be_bytes(Slice(d, p1, p2)),
                     timestamp_usec |-> from_be_bytes(Slice(d, p2, p3)),
                     ecu |-> trim_matches_nul(Slice(d, p3, p4))]]

has_extended_header(std) == is_bit_set(std.htyp, HTYP_EXTENDED_HEADER_BIT_MASK)
is_big_endian(std) == is_bit_set(std.htyp, HTYP_MSB_FIRST_BIT_MASK)
has_ecu_id(htyp) == is_bit_set(htyp, HTYP_ECU_ID_BIT_MASK)
\* A session-id test that looks at the timestamp bit.
has_session_id_by_timestamp_bit(htyp) == is_bit_set(htyp, HTYP_TIMESTAMP_BIT_MASK)

has_session_id(htyp) == is_bit_set(htyp, HTYP_SESSION_ID_BIT_MASK)
has_timestamp(htyp) == is_bit_set(htyp, HTYP_TIMESTAMP_BIT_MASK)

read_standard_header(d, idx) ==
  LET p0 == idx
      p1 == p0 + SIZE_U8
      p2 == p1 + SIZE_U8
      p3 == p2 + SIZE_U16
      htyp == d[p0 + 1]
      p4 == IF has_ecu_id(htyp) THEN p3 + ECU_ID_SIZE ELSE p3
      p5 == IF has_session_id(htyp) THEN p4 + SIZE_U32 ELSE p4
      p6 == IF has_timestamp(htyp) THEN p5 + SIZE_U32 ELSE p5
  IN  IF ~(p0 < Len(d)) THEN Panic("IndexOutOfBounds")
      ELSE IF ~(p1 < Len(d)) THEN Panic("IndexOutOfBounds")
      ELSE IF ~InRange(d, p2, p3) THEN Panic("IndexOutOfBounds")
      ELSE IF ~InRange(d, p3, p4) THEN Panic("IndexOutOfBounds")
      ELSE IF has_ecu_id(htyp) /\ ~from_utf8_ok(Slice(d, p3, p4)) THEN Panic("Utf8Error")
      ELSE IF ~InRange(d, p4, p5) THEN Panic("IndexOutOfBounds")
      ELSE IF ~InRange(d, p5, p6) THEN Panic("IndexOutOfBounds")
      ELSE [panic |-> "", index |-> p6,
            hdr |-> [htyp |-> htyp,
                     counter |-> d[p1 + 1],
                     msg_length |-> u16_from_be_bytes(Slice(d, p2, p3)),
                     ecu_id |-> IF has_ecu_id(htyp)
                                THEN Some(trim_matches_nul(Slice(d, p3, p4))) ELSE None,
                     session_id |-> IF has_session_id(htyp)
                                    THEN Some(from_be_bytes(Slice(d, p4, p5))) ELSE None,
                     timestamp |-> IF has_timestamp(htyp)
                                   THEN Some(from_be_bytes(Slice(d, p5, p6))) ELSE None,
                     length |-> p6 - p0]]

\* An extended header whose argument count is the count byte whatever the verbose bit.
num_arguments_from_byte(msg_info, byte) == byte

\* let num_arguments = if is_bit_set!(msg_info, MSG_INFO_VERBOSE_BIT_MASK) {..} else {0}
num_arguments(msg_info, byte) ==
  IF is_bit_set(msg_info, MSG_INFO_VERBOSE_BIT_MASK) THEN byte ELSE 0

read_extended_header(d, idx) ==
  LET p0 == idx
      p1 == p0 + SIZE_U8
      p2 == p1 + SIZE_U8
      p3 == p2 + APP_ID_SIZE
      p4 == p3 + CONTEXT_ID_SIZE
      msg_info == d[p0 + 1]
      verbose == is_bit_set(msg_info, MSG_INFO_VERBOSE_BIT_MASK)
  IN  IF ~(p0 < Len(d)) THEN Panic("IndexOutOfBounds")
      ELSE IF verbose /\ ~(p1 < Len(d)) THEN Panic("IndexOutOfBounds")
      ELSE IF ~InRange(d, p2, p3) THEN Panic("IndexOutOfBounds")
      ELSE IF ~from_utf8_ok(Slice(d, p2, p3)) THEN Panic("Utf8Error")
      ELSE IF ~InRange(d, p3, p4) THEN Panic("IndexOutOfBounds")
      ELSE IF ~from_utf8_ok(Slice(d, p3, p4)) THEN Panic("Utf8Error")
      ELSE [panic |-> "", index |-> p4,
            hdr |-> [msg_info |-> msg_info,
                     num_of_args |-> num_arguments(msg_info, d[p1 + 1]),
                     app_id |-> trim_matches_nul(Slice(d, p2, p3)),
                     context_id |-> trim_matches_nul(Slice(d, p3, p4)),
                     length |-> p4 - p0]]

is_verbose(ext) == is_bit_set(ext.msg_info, MSG_INFO_VERBOSE_BIT_MASK)

(***************************************************************************)
(* Verbose payload decoder (src/dlt/payload.rs).                           *)
(* A Value is [kind, num, str]: num is the word of an integer value (for   *)
(* Bool, <<1>> or <<0>>), str the text of a String or TraceData.           *)
(***************************************************************************)
TYPE_INFO_LENGTH_BIT_MASK == 15
TYPE_INFO_BOOL_BIT_MASK == 16
TYPE_INFO_INT_BIT_MASK == 32
TYPE_INFO_UINT_BIT_MASK == 64
TYPE_INFO_FLOAT_BIT_MASK == 128
TYPE_INFO_ARRAY_BIT_MASK == 256
TYPE_INFO_STRING_BIT_MASK == 512
TYPE_INFO_RAW_BIT_MASK == 1024
TYPE_INFO_TRACE_INFO_BIT_MASK == 8192
TYPE_INFO_STRUCT_BIT_MASK == 16384

Value(kind, num, str) == [kind |-> kind, num |-> num, str |-> str]

\* impl From<u8> for TypeLength: the number of bytes, 0 for Undefined.
TypeLength(nibble) ==
  CASE nibble = 1 -> 1
    [] nibble = 2 -> 2
    [] nibble = 3 -> 4
    [] nibble = 4 -> 8
    [] nibble = 5 -> 16
    [] OTHER -> 0

type_len(type_info) == TypeLength((Low24(type_info) % (TYPE_INFO_LENGTH_BIT_MASK + 1)))

\* A classification in which the highest set type bit decides.
TypeFromHighest(type_info) ==
  LET v == Low24(type_info) IN
  CASE is_bit_set(v, TYPE_INFO_STRUCT_BIT_MASK) -> "Struct"
    [] is_bit_set(v, TYPE_INFO_TRACE_INFO_BIT_MASK) -> "TraceInfo"
    [] is_bit_set(v, TYPE_INFO_RAW_BIT_MASK) -> "Raw"
    [] is_bit_set(v, TYPE_INFO_STRING_BIT_MASK) -> "String"
    [] is_bit_set(v, TYPE_INFO_ARRAY_BIT_MASK) -> "Array"
    [] is_bit_set(v, TYPE_INFO_FLOAT_BIT_MASK) -> "Float"
    [] is_bit_set(v, TYPE_INFO_UINT_BIT_MASK) -> "Unsigned"
    [] is_bit_set(v, TYPE_INFO_INT_BIT_MASK) -> "Signed"
    [] is_bit_set(v, TYPE_INFO_BOOL_BIT_MASK) -> "Bool"
    [] OTHER -> "Reserved"

\* impl From<u32> for Type: the first set type bit, in the order of the match arms.
TypeFrom(type_info) ==
  LET v == Low24(type_info) IN
  CASE is_bit_set(v, TYPE_INFO_BOOL_BIT_MASK) -> "Bool"
    [] is_bit_set(v, TYPE_INFO_INT_BIT_MASK) -> "Signed"
    [] is_bit_set(v, TYPE_INFO_UINT_BIT_MASK) -> "Unsigned"
    [] is_bit_set(v, TYPE_INFO_FLOAT_BIT_MASK) -> "Float"
    [] is_bit_set(v, TYPE_INFO_ARRAY_BIT_MASK) -> "Array"
    [] is_bit_set(v, TYPE_INFO_STRING_BIT_MASK) -> "String"
    [] is_bit_set(v, TYPE_INFO_RAW_BIT_MASK) -> "Raw"
    [] is_bit_set(v, TYPE_INFO_TRACE_INFO_BIT_MASK) -> "TraceInfo"
    [] is_bit_set(v, TYPE_INFO_STRUCT_BIT_MASK) -> "Struct"
    [] OTHER -> "Reserved"

\* A reader returns [panic |-> kind] or [panic |-> "", index, value |-> Option<Value>].
Read(idx, value) == [panic |-> "", index |-> idx, value |-> value]

read_bool(d, idx, be, type_info) ==
  IF type_len(type_info) = 1
  THEN IF ~InRange(d, idx, idx + 1) THEN Panic("IndexOutOfBounds")
       ELSE Read(idx + 1,
                 Some(Value("Bool",
                            IF from_bytes(be, Slice(d, idx, idx + 1)) = <<1>> THEN <<1>> ELSE <<0>>,
                            <<>>)))
  ELSE Read(idx, None)

SIntKind(n) == CASE n = 1 -> "SInt8" [] n = 2 -> "SInt16" [] n = 4 -> "SInt32"
                 [] n = 8 -> "SInt64" [] OTHER -> "SInt128"

UIntKind(n) == CASE n = 1 -> "UInt8" [] n = 2 -> "UInt16" [] n = 4 -> "UInt32"
                 [] n = 8 -> "UInt64" [] OTHER -> "UInt128"

read_signed(d, idx, be, type_info) ==
  LET n == type_len(type_info) IN
  IF n = 0 THEN Read(idx, None)
  ELSE IF ~InRange(d, idx, idx + n) THEN Panic("IndexOutOfBounds")
  ELSE Read(idx + n, Some(Value(SIntKind(n), from_bytes(be, Slice(d, idx, idx + n)), <<>>)))

read_unsigned(d, idx, be, type_info) ==
  LET n == type_len(type_info) IN
  IF n = 0 THEN Read(idx, None)
  ELSE IF ~InRange(d, idx, idx + n) THEN Panic("IndexOutOfBounds")
  ELSE Read(idx + n, Some(Value(UIntKind(n), from_bytes(be, Slice(d, idx, idx + n)), <<>>)))

\* read_string and read_trace_info share their body; kind is "String" or "TraceData".
read_text(d, idx, be, kind) ==
  LET p1 == idx + SIZE_U16
      str_len == WordToNat(from_bytes(be, Slice(d, idx, p1)))
      p2 == p1 + str_len
  IN  IF ~InRange(d, idx, p1) THEN Panic("IndexOutOfBounds")
      ELSE IF ~InRange(d, p1, p2) THEN Panic("IndexOutOfBounds")
      ELSE IF ~from_utf8_ok(Slice(d, p1, p2)) THEN Panic("Utf8Error")
      ELSE Read(p2, Some(Value(kind, <<>>, trim_matches_nul(Slice(d, p1, p2)))))

read_string(d, idx, be) == read_text(d, idx, be, "String")

read_trace_info(d, idx, be) == read_text(d, idx, be, "TraceData")

read_argument(d, idx, be) ==
  LET read_to == idx + SIZE_U32
      type_info == from_bytes(be, Slice(d, idx, read_to))
      arg_type == TypeFrom(type_info)
  IN  IF ~InRange(d, idx, read_to) THEN Panic("IndexOutOfBounds")
      ELSE CASE arg_type = "Bool" -> read_bool(d, read_to, be, type_info)
             [] arg_type = "Unsigned" -> read_unsigned(d, read_to, be, type_info)
             [] arg_type = "Signed" -> read_signed(d, read_to, be, type_info)
             [] arg_type = "String" -> read_string(d, read_to, be)
             [] arg_type = "TraceInfo" -> read_trace_info(d, read_to, be)
             [] OTHER -> Read(read_to, None)

\* An argument iterator for which an undecodable argument is fatal.
RECURSIVE PayloadIterUnwrap(_, _, _, _, _)
PayloadIterUnwrap(d, idx, count, be, acc) ==
  IF count > 0
  THEN LET r == read_argument(d, idx, be) IN
       IF r.panic # "" THEN Panic(r.panic)
       ELSE IF ~IsSome(r.value) THEN Panic("UnwrapNone")
       ELSE PayloadIterUnwrap(d, r.index, count - 1, be, Append(acc, Unwrap(r.value)))
  ELSE [panic |-> "", index |-> idx, values |-> acc]

\* PayloadIter::next driven by the for loop of read_message: the loop ends when
\* count reaches 0 or at the first None.  Returns [panic |-> kind] or
\* [panic |-> "", index, values].
RECURSIVE PayloadIter(_, _, _, _, _)
PayloadIter(d, idx, count, be, acc) ==
  IF count > 0
  THEN LET r == read_argument(d, idx, be) IN
       IF r.panic # "" THEN Panic(r.panic)
       ELSE IF ~IsSome(r.value) THEN [panic |-> "", index |-> r.index, values |-> acc]
       ELSE PayloadIter(d, r.index, count - 1, be, Append(acc, Unwrap(r.value)))
  ELSE [panic |-> "", index |-> idx, values |-> acc]

(***************************************************************************)
(* Non-verbose payload.  src/dlt.rs calls Payload::new_verbose,            *)
(* Payload::new_non_verbose and Payload::read_non_verbose, which           *)
(* src/dlt/payload.rs does not define; they follow the specification:      *)
(* the verbose payload is the argument iterator above, and the non-verbose *)
(* payload is one value, a 32-bit message id in the message byte order     *)
(* followed by the remaining payload_size - 4 bytes, or the error-tagged   *)
(* value Truncated when that range is not in the buffer.  A payload_size   *)
(* below 0 stands for the wrapped usize 2^64 + payload_size.               *)
(***************************************************************************)
new_verbose(d, idx, payload_size, be, count) == PayloadIter(d, idx, count, be, <<>>)

read_non_verbose(d, idx, payload_size, be) ==
  IF payload_size < SIZE_U32 \/ ~InRange(d, idx, idx + payload_size)
  THEN Value("Truncated", <<>>, <<>>)
  ELSE Value("NonVerbose", from_bytes(be, Slice(d, idx, idx + SIZE_U32)),
             Slice(d, idx + SIZE_U32, idx + payload_size))

(***************************************************************************)
(* TraceDataIter::read_message (src/dlt.rs).  overflow_checks is the       *)
(* build's setting: a usize subtraction below 0 panics with it and wraps   *)
(* without it.  Returns [panic |-> kind] or                                *)
(* [panic |-> "", index, start_index, message].                            *)
(***************************************************************************)
Message(storage, std, ext, payload) ==
  [storage_header |-> storage, standard_header |-> std,
   extended_header |-> ext, payload |-> payload]

\* A read_message that leaves the index where decoding stopped.
next_index_at_payload_end(start, std, payload_end) == payload_end

\* self.index = start_index + message.standard_header.msg_len(); payload_end is where
\* the decoding of the record stopped, which the code does not use.
\* An offset that is counted from the storage header's start.
next_index_from_storage_start(start, std, payload_end) ==
  (start - DLT_PATTERN_SIZE - SIZE_U32 - SIZE_U32 - ECU_NAME_SIZE) + std.msg_length

next_index(start, std, payload_end) == start + std.msg_length

read_message(d, idx, overflow_checks) ==
  LET sh == read_storage_header(d, idx) IN
  IF sh.panic # "" THEN Panic(sh.panic)
  ELSE
  LET start == sh.index
      st == read_standard_header(d, start)
  IN
  IF st.panic # "" THEN Panic(st.panic)
  ELSE IF has_extended_header(st.hdr)
  THEN LET ex == read_extended_header(d, st.index) IN
       IF ex.panic # "" THEN Panic(ex.panic)
       ELSE
       LET payload_size == st.hdr.msg_length - st.hdr.length - ex.hdr.length IN
       IF payload_size < 0 /\ overflow_checks THEN Panic("Overflow")
       ELSE IF is_verbose(ex.hdr)
       THEN LET pl == new_verbose(d, ex.index, payload_size, is_big_endian(st.hdr),
                                  ex.hdr.num_of_args) IN
            IF pl.panic # "" THEN Panic(pl.panic)
            ELSE [panic |-> "", index |-> next_index(start, st.hdr, pl.index),
                  start_index |-> start,
                  message |-> Message(sh.hdr, st.hdr, Some(ex.hdr), pl.values)]
       ELSE [panic |-> "", index |-> next_index(start, st.hdr, ex.index),
             start_index |-> start,
             message |-> Message(sh.hdr, st.hdr, Some(ex.hdr),
                                 <<read_non_verbose(d, ex.index, payload_size,
                                                    is_big_endian(st.hdr))>>)]
  ELSE LET payload_size == st.hdr.msg_length - st.hdr.length IN
       IF payload_size < 0 /\ overflow_checks THEN Panic("Overflow")
       ELSE [panic |-> "", index |-> next_index(start, st.hdr, st.index),
             start_index |-> start,
             message |-> Message(sh.hdr, st.hdr, None,
                                 <<read_non_verbose(d, st.index, payload_size,
                                                    is_big_endian(st.hdr))>>)]

(***************************************************************************)
(* Patterns (src/dlt/filter.rs).  The regex crate is modelled on the       *)
(* pattern sources the configurations below use: literal characters,       *)
(* optionally followed by one named group of decimal digits,               *)
(* lit(?P<name>\d+).  A compiled regex is [lit, name |-> Option<text>].    *)
(***************************************************************************)
GroupOpen == S(<<"(", "?", "P", "<">>)
GroupClose == S(<<">", "\\", "d", "+", ")">>)

ChLt == Code("<")
ChGt == Code(">")
ChUnderscore == Code("_")
Lower == Code("a")..Code("z")
Upper == Code("A")..Code("Z")
Digits == Code("0")..Code("9")

IsLower(c) == c \in Lower
IsUpper(c) == c \in Upper
IsDigit(c) == c \in Digits

\* The regex syntax's group names: a letter or '_', then letters, digits or '_'.
IsGroupName(n) ==
  /\ n # <<>>
  /\ IsLower(n[1]) \/ IsUpper(n[1]) \/ n[1] = ChUnderscore
  /\ \A i \in 1..Len(n) : IsLower(n[i]) \/ IsUpper(n[i]) \/ IsDigit(n[i]) \/ n[i] = ChUnderscore

\* Where text t occurs in s at (1-based) position i.
OccursAt(s, t, i) == i >= 1 /\ i + Len(t) - 1 <= Len(s) /\ SubSeq(s, i, i + Len(t) - 1) = t

\* Regex::new(source): the compiled regex of a source of the modelled family.
RegexNew(src) ==
  LET opens == {i \in 1..Len(src) : OccursAt(src, GroupOpen, i)} IN
  IF opens = {} THEN [lit |-> src, name |-> None]
  ELSE LET i == CHOOSE k \in opens : \A j \in opens : k <= j
           j == CHOOSE k \in (i + 4)..Len(src) : src[k] = ChGt
       IN  [lit |-> SubSeq(src, 1, i - 1), name |-> Some(SubSeq(src, i + 4, j - 1))]

\* Pattern::from: RegexSet::new and one Regex per source, in the same order.
PatternFrom(sources) == [i \in 1..Len(sources) |-> RegexNew(sources[i])]

RECURSIVE DigitRunEnd(_, _)
DigitRunEnd(s, i) == IF i <= Len(s) /\ IsDigit(s[i]) THEN DigitRunEnd(s, i + 1) ELSE i

\* Whether the regex matches s starting at position i.
MatchesAt(re, s, i) ==
  /\ OccursAt(s, re.lit, i)
  /\ IsSome(re.name) => (i + Len(re.lit) <= Len(s) /\ IsDigit(s[i + Len(re.lit)]))

\* RegexSet::matches / Regex::is_match: an unanchored search.
IsMatch(re, s) == \E i \in 1..(Len(s) + 1) : MatchesAt(re, s, i)

\* Regex::captures: the leftmost match, the digits taken greedily.
\* A bundle is [whole, name |-> Option<text>, val].
RegexCaptures(re, s) ==
  IF ~IsMatch(re, s) THEN None
  ELSE LET i == CHOOSE k \in 1..(Len(s) + 1) :
                  MatchesAt(re, s, k) /\ \A j \in 1..(k - 1) : ~MatchesAt(re, s, j)
           b == i + Len(re.lit)
           e == IF IsSome(re.name) THEN DigitRunEnd(s, b) ELSE b
       IN  Some([whole |-> SubSeq(s, i, e - 1), name |-> re.name, val |-> SubSeq(s, b, e - 1)])

\* Captures::name(name).map(|captured| captured.as_str())
CaptureName(bundle, name) ==
  IF IsSome(bundle.name) /\ Unwrap(bundle.name) = name THEN Some(bundle.val) ELSE None

RECURSIVE FilterMapCaptures(_, _, _)
FilterMapCaptures(regexes, s, i) ==
  IF i > Len(regexes) THEN <<>>
  ELSE (IF IsMatch(regexes[i], s) THEN RegexCaptures(regexes[i], s) ELSE <<>>)
       \o FilterMapCaptures(regexes, s, i + 1)

\* Pattern::captures: the bundles of the matching regexes in index order, or None.
PatternCaptures(regexes, s) ==
  LET c == FilterMapCaptures(regexes, s, 1) IN IF c = <<>> THEN None ELSE Some(c)

\* Pattern::capture_names: every match of <(?P<name>[a-z]+)> in every source.
RECURSIVE LowerRunEnd(_, _)
LowerRunEnd(s, i) == IF i <= Len(s) /\ IsLower(s[i]) THEN LowerRunEnd(s, i + 1) ELSE i

RECURSIVE ScanNames(_, _)
ScanNames(src, i) ==
  IF i > Len(src) THEN <<>>
  ELSE IF src[i] = ChLt
  THEN LET e == LowerRunEnd(src, i + 1) IN
       IF e > i + 1 /\ e <= Len(src) /\ src[e] = ChGt
       THEN <<SubSeq(src, i + 1, e - 1)>> \o ScanNames(src, e + 1)
       ELSE ScanNames(src, i + 1)
  ELSE ScanNames(src, i + 1)

RECURSIVE AllNames(_, _)
AllNames(patterns, i) ==
  IF i > Len(patterns) THEN <<>> ELSE ScanNames(patterns[i], 1) \o AllNames(patterns, i + 1)

capture_names(patterns) ==
  LET names == AllNames(patterns, 1) IN IF names = <<>> THEN None ELSE Some(names)

(***************************************************************************)
(* Filter (src/dlt/filter.rs): the HashMap as one Option per FilterId.     *)
(* Time is never added.                                                    *)
(***************************************************************************)
FilterNew == [EcuId |-> None, AppId |-> None, ContextId |-> None, Patterns |-> None]

\* An ECU filter that is compared with the standard header's ECU id.
filter_ecu_id_on_standard_header(f, m) ==
  IF IsSome(f.EcuId) THEN f.EcuId = m.standard_header.ecu_id ELSE TRUE

filter_ecu_id(f, m) ==
  IF IsSome(f.EcuId) THEN Unwrap(f.EcuId) = m.storage_header.ecu ELSE TRUE

filter_app_id(f, m) ==
  IF IsSome(m.extended_header)
  THEN IF IsSome(f.AppId) THEN Unwrap(f.AppId) = Unwrap(m.extended_header).app_id ELSE TRUE
  ELSE TRUE

filter_context_id(f, m) ==
  IF IsSome(m.extended_header)
  THEN IF IsSome(f.ContextId)
       THEN Unwrap(f.ContextId) = Unwrap(m.extended_header).context_id ELSE TRUE
  ELSE TRUE

RECURSIVE ScanPayload(_, _, _)
\* A scan in which a later matching string replaces an earlier one.
RECURSIVE ScanPayloadLast(_, _, _)
ScanPayloadLast(regexes, payload, i) ==
  IF i > Len(payload) THEN Some(<<>>)
  ELSE LET later == ScanPayloadLast(regexes, payload, i + 1) IN
       IF later # Some(<<>>) THEN later
       ELSE IF payload[i].kind = "String" /\ IsSome(PatternCaptures(regexes, payload[i].str))
       THEN PatternCaptures(regexes, payload[i].str)
       ELSE Some(<<>>)

ScanPayload(regexes, payload, i) ==
  IF i > Len(payload) THEN Some(<<>>)
  ELSE IF payload[i].kind = "String"
  THEN LET capture_matches == PatternCaptures(regexes, payload[i].str) IN
       IF IsSome(capture_matches) THEN capture_matches
       ELSE ScanPayload(regexes, payload, i + 1)
  ELSE ScanPayload(regexes, payload, i + 1)

\* A find_patterns that answers with an empty capture list when no Patterns filter is set.
find_patterns_always_some(f, m) ==
  IF IsSome(f.Patterns) THEN ScanPayload(Unwrap(f.Patterns), m.payload, 1) ELSE Some(<<>>)

\* Filter::find_patterns: Option<Vec<Captures>>.
find_patterns(f, m) ==
  IF IsSome(f.Patterns) THEN ScanPayload(Unwrap(f.Patterns), m.payload, 1) ELSE None

(***************************************************************************)
(* Output descriptor (src/lib.rs).  A field is [kind, name]; name is the   *)
(* capture's name for kind "Capture" and empty otherwise.                  *)
(***************************************************************************)
Field(kind) == [kind |-> kind, name |-> <<>>]
Capture(name) == [kind |-> "Capture", name |-> name]

NameEcu == S(<<"e", "c", "u">>)
NameApp == S(<<"a", "p", "p">>)
NameCtx == S(<<"c", "t", "x">>)
NameTime == S(<<"t", "i", "m", "e">>)
NameTimestamp == S(<<"t", "i", "m", "e", "s", "t", "a", "m", "p">>)
NamePayload == S(<<"p", "a", "y", "l", "o", "a", "d">>)

\* OutputField::from: Option<OutputField>.
OutputFieldFrom(input) ==
  CASE input = NameEcu -> Some(Field("Ecu"))
    [] input = NameApp -> Some(Field("App"))
    [] input = NameCtx -> Some(Field("Ctx"))
    [] input = NameTime -> Some(Field("Time"))
    [] input = NameTimestamp -> Some(Field("Timestamp"))
    [] input = NamePayload -> Some(Field("Payload"))
    [] input # <<>> /\ input[1] = ChLt /\ input[Len(input)] = ChGt
         -> Some(Capture(SubSeq(input, 2, Len(input) - 1)))
    [] OTHER -> None

\* str::split(delimiter): the pieces between the delimiters, empty ones included.
RECURSIVE Split(_, _, _)
Split(s, delimiter, piece) ==
  IF s = <<>> THEN <<piece>>
  ELSE IF Head(s) = delimiter THEN <<piece>> \o Split(Tail(s), delimiter, <<>>)
  ELSE Split(Tail(s), delimiter, Append(piece, Head(s)))

RECURSIVE FilterMapFields(_, _)
FilterMapFields(names, i) ==
  IF i > Len(names) THEN <<>>
  ELSE OutputFieldFrom(names[i]) \o FilterMapFields(names, i + 1)

\* Output::validate_captures: TRUE for Ok(()), FALSE for Err.
validate_captures(block, fields) ==
  LET names == IF IsSome(block.patterns) THEN capture_names(Unwrap(block.patterns)) ELSE None IN
  \A i \in 1..Len(fields) :
     fields[i].kind = "Capture" =>
       /\ IsSome(names)
       /\ \E k \in 1..Len(Unwrap(names)) : Unwrap(names)[k] = fields[i].name

\* Output::from_filter: [exit |-> TRUE] for process::exit(1), else
\* [exit |-> FALSE, output |-> Option<Output>]; an Output is [delimiter, fields].
from_filter(block) ==
  IF IsSome(block.output) /\ IsSome(Unwrap(block.output).stdout)
     /\ Unwrap(Unwrap(block.output).stdout).enabled
  THEN LET stdout_cfg == Unwrap(Unwrap(block.output).stdout)
           fields == FilterMapFields(Split(stdout_cfg.format, stdout_cfg.delimiter, <<>>), 1)
       IN  IF validate_captures(block, fields)
           THEN [exit |-> FALSE,
                 output |-> Some([delimiter |-> stdout_cfg.delimiter, fields |-> fields])]
           ELSE [exit |-> TRUE, output |-> None]
  ELSE [exit |-> FALSE, output |-> None]

\* The loop of run() over the configuration's filter blocks: each block adds its
\* filters to the one filter set and replaces the output descriptor.
RECURSIVE RunBlocks(_, _, _, _)
RunBlocks(blocks, i, f, out) ==
  IF i > Len(blocks) THEN [exit |-> FALSE, filters |-> f, output |-> out]
  ELSE LET b == blocks[i]
           f1 == [f EXCEPT !.EcuId = IF IsSome(b.ecu_id) THEN b.ecu_id ELSE @,
                           !.AppId = IF IsSome(b.app_id) THEN b.app_id ELSE @,
                           !.ContextId = IF IsSome(b.context_id) THEN b.context_id ELSE @,
                           !.Patterns = IF IsSome(b.patterns)
                                        THEN Some(PatternFrom(Unwrap(b.patterns))) ELSE @]
           o == from_filter(b)
       IN  IF o.exit THEN [exit |-> TRUE, filters |-> f1, output |-> out]
           ELSE RunBlocks(blocks, i + 1, f1, o.output)

(***************************************************************************)
(* Projection (src/dlt.rs, run_dlt): the line of one message.              *)
(***************************************************************************)
NoneStr == S(<<"n", "o", "n", "e">>)
TimeStr == S(<<"T">>)
TimestampStr == S(<<"T", "S">>)

\* A capture field that writes a value for every bundle, also one without the group.
RECURSIVE RenderCapturesOfAll(_, _, _, _)
RenderCapturesOfAll(bundles, name, delimiter, i) ==
  IF i > Len(bundles) THEN <<>>
  ELSE bundles[i].val \o <<delimiter>> \o RenderCapturesOfAll(bundles, name, delimiter, i + 1)

RECURSIVE RenderCaptures(_, _, _, _)
RenderCaptures(bundles, name, delimiter, i) ==
  IF i > Len(bundles) THEN <<>>
  ELSE (LET c == CaptureName(bundles[i], name) IN
        IF IsSome(c) THEN Unwrap(c) \o <<delimiter>> ELSE <<>>)
       \o RenderCaptures(bundles, name, delimiter, i + 1)

\* A payload field that also writes the trace-info arguments.
RECURSIVE RenderPayloadWithTrace(_, _, _)
RenderPayloadWithTrace(payload, delimiter, i) ==
  IF i > Len(payload) THEN <<>>
  ELSE (IF payload[i].kind \in {"String", "TraceData"}
        THEN payload[i].str \o <<delimiter>> ELSE <<>>)
       \o RenderPayloadWithTrace(payload, delimiter, i + 1)

RECURSIVE RenderPayload(_, _, _)
RenderPayload(payload, delimiter, i) ==
  IF i > Len(payload) THEN <<>>
  ELSE (IF payload[i].kind = "String" THEN payload[i].str \o <<delimiter>> ELSE <<>>)
       \o RenderPayload(payload, delimiter, i + 1)

RenderField(field, m, bundles, delimiter) ==
  CASE field.kind = "Time" -> TimeStr \o <<delimiter>>
    [] field.kind = "Timestamp" -> TimestampStr \o <<delimiter>>
    [] field.kind = "App" ->
         (IF IsSome(m.extended_header) THEN Unwrap(m.extended_header).app_id ELSE NoneStr)
         \o <<delimiter>>
    [] field.kind = "Ctx" ->
         (IF IsSome(m.extended_header) THEN Unwrap(m.extended_header).context_id ELSE NoneStr)
         \o <<delimiter>>
    [] field.kind = "Ecu" ->
         (IF IsSome(m.standard_header.ecu_id) THEN Unwrap(m.standard_header.ecu_id) ELSE NoneStr)
         \o <<delimiter>>
    [] field.kind = "Capture" -> RenderCaptures(bundles, field.name, delimiter, 1)
    [] field.kind = "Payload" -> RenderPayload(m.payload, delimiter, 1)

RECURSIVE RenderFields(_, _, _, _, _)
RenderFields(fields, m, bundles, delimiter, i) ==
  IF i > Len(fields) THEN <<>>
  ELSE RenderField(fields[i], m, bundles, delimiter)
       \o RenderFields(fields, m, bundles, delimiter, i + 1)

\* str::trim_end_matches(delimiter): EVERY trailing delimiter is removed.
RECURSIVE trim_end_matches(_, _)
trim_end_matches(s, delimiter) ==
  IF s # <<>> /\ s[Len(s)] = delimiter
  THEN trim_end_matches(SubSeq(s, 1, Len(s) - 1), delimiter) ELSE s

\* The text after "formatted out: ".
FormattedOut(out, m, bundles) ==
  trim_end_matches(RenderFields(out.fields, m, bundles, out.delimiter, 1), out.delimiter)

(***************************************************************************)
(* Input files.  A file is described by its records and what follows the   *)
(* last one; Encode lays the description out as the bytes the decoders     *)
(* read.  A record is [secu, htyp, ecu, ext, args, raw, delta]: the        *)
(* payload is the encoded arguments followed by the raw bytes, and         *)
(* msg_length is the record's true length plus delta.  An argument is      *)
(* [t, n, text]: t its type, n its number (for a text, what its length     *)
(* prefix is off by), text its bytes.                                      *)
(***************************************************************************)
MaxRecords == 2
MaxArgs == 2

ECU1 == S(<<"E", "C", "U", "1">>)
ECU2 == S(<<"E", "C", "U", "2">>)
APP1 == S(<<"A", "P", "P", "1">>)
APP2 == S(<<"A", "P", "P", "2">>)
CON1 == S(<<"C", "O", "N", "1">>)
Hello == S(<<"h", "e", "l", "l", "o">>)
Id42 == S(<<"i", "d", "=", "4", "2">>)
Foo == S(<<"f", "o", "o">>)

Pad4(s) == s \o [i \in 1..(4 - Len(s)) |-> 0]
U16Bytes(be, n) == IF be THEN <<n \div 256, n % 256>> ELSE <<n % 256, n \div 256>>
U32Bytes(be, n) ==
  LET w == <<0, n \div 65536, (n \div 256) % 256, n % 256>> IN IF be THEN w ELSE Reverse(w)

SCOD_UTF8 == 32768
TYPE_INFO_VARIABLE_INFO_BIT_MASK == 2048

Arg(t, n, text) == [t |-> t, n |-> n, text |-> text]

EncArg(be, a) ==
  CASE a.t = "String" ->
         U32Bytes(be, TYPE_INFO_STRING_BIT_MASK + SCOD_UTF8)
         \o U16Bytes(be, Len(a.text) + a.n) \o a.text
    [] a.t = "TraceData" ->
         U32Bytes(be, TYPE_INFO_TRACE_INFO_BIT_MASK) \o U16Bytes(be, Len(a.text) + a.n) \o a.text
    [] a.t = "Bool" -> U32Bytes(be, TYPE_INFO_BOOL_BIT_MASK + 1) \o <<a.n>>
    [] a.t = "UInt8" -> U32Bytes(be, TYPE_INFO_UINT_BIT_MASK + 1) \o <<a.n>>
    [] a.t = "UInt16" -> U32Bytes(be, TYPE_INFO_UINT_BIT_MASK + 2) \o U16Bytes(be, a.n)
    [] a.t = "SInt16" -> U32Bytes(be, TYPE_INFO_INT_BIT_MASK + 2) \o U16Bytes(be, a.n)
    [] a.t = "Float" -> U32Bytes(be, TYPE_INFO_FLOAT_BIT_MASK + 3) \o <<63, 128, 0, 0>>
    [] a.t = "Array" -> U32Bytes(be, TYPE_INFO_ARRAY_BIT_MASK + 1) \o <<0, 1, 0, 1, 9>>
    [] a.t = "Raw" -> U32Bytes(be, TYPE_INFO_RAW_BIT_MASK) \o U16Bytes(be, 2) \o <<9, 9>>
    [] a.t = "Struct" -> U32Bytes(be, TYPE_INFO_STRUCT_BIT_MASK) \o U16Bytes(be, 0)
    [] a.t = "Reserved" -> U32Bytes(be, TYPE_INFO_VARIABLE_INFO_BIT_MASK + 1) \o <<9>>
    [] a.t = "UndefinedLength" -> U32Bytes(be, TYPE_INFO_UINT_BIT_MASK + 6) \o <<9>>

RECURSIVE EncArgs(_, _)
EncArgs(be, args) == IF args = <<>> THEN <<>> ELSE EncArg(be, Head(args)) \o EncArgs(be, Tail(args))

EncStorage(ecu) == DLT_STORAGE_START_PATTERN \o <<0, 0, 0, 1>> \o <<0, 0, 0, 2>> \o Pad4(ecu)

EncExt(ext) == <<ext.msin, ext.noar>> \o Pad4(ext.app) \o Pad4(ext.ctx)

EncRecord(r) ==
  LET opt == (IF has_ecu_id(r.htyp) THEN Pad4(r.ecu) ELSE <<>>)
             \o (IF has_session_id(r.htyp) THEN <<0, 0, 0, 5>> ELSE <<>>)
             \o (IF has_timestamp(r.htyp) THEN <<0, 0, 0, 100>> ELSE <<>>)
      ext == IF IsSome(r.ext) THEN EncExt(Unwrap(r.ext)) ELSE <<>>
      payload == EncArgs(is_bit_set(r.htyp, HTYP_MSB_FIRST_BIT_MASK), r.args) \o r.raw
      n == 4 + Len(opt) + Len(ext) + Len(payload) + r.delta
  IN  EncStorage(r.secu) \o <<r.htyp, 0>> \o U16Bytes(TRUE, n) \o opt \o ext \o payload

RECURSIVE EncRecords(_)
EncRecords(rs) == IF rs = <<>> THEN <<>> ELSE EncRecord(Head(rs)) \o EncRecords(Tail(rs))

Encode(file) == EncRecords(file.records) \o file.tail

Rec(secu, htyp, ecu, ext, args, raw, delta) ==
  [secu |-> secu, htyp |-> htyp, ecu |-> ecu, ext |-> ext, args |-> args, raw |-> raw,
   delta |-> delta]

Ext(msin, noar, app, ctx) == Some([msin |-> msin, noar |-> noar, app |-> app, ctx |-> ctx])

\* HTYP 0x35: extended header, big-endian, ECU id, timestamp; MSIN 0x41: verbose, Log/Info.
RecHello == Rec(ECU1, 53, ECU1, Ext(65, 1, APP1, CON1), <<Arg("String", 0, Hello \o <<0>>)>>, <<>>, 0)
RecId42 == Rec(ECU1, 53, ECU1, Ext(65, 1, APP1, CON1), <<Arg("String", 0, Id42)>>, <<>>, 0)
\* HTYP 0x20: no extended header; the payload is a message id and two bytes.
RecNoExt == Rec(ECU1, 32, <<>>, None, <<>>, <<9, 0, 0, 0, 7, 8>>, 0)
\* HTYP 0x21: extended header, little-endian, no ECU id; a float between two arguments.
RecUnsupported ==
  Rec(ECU2, 33, <<>>, Ext(65, 3, APP2, CON1),
      <<Arg("UInt8", 7, <<>>), Arg("Float", 0, <<>>), Arg("String", 0, Hello)>>, <<>>, 0)
\* Two strings, an integer and a trace-info; the standard header's ECU differs from storage's.
RecTwoStrings ==
  Rec(ECU2, 53, ECU1, Ext(65, 4, APP1, CON1),
      <<Arg("String", 0, <<0>> \o Foo \o <<0>>), Arg("UInt16", 258, <<>>),
        Arg("String", 0, Id42), Arg("TraceData", 0, Foo)>>, <<>>, 0)
\* MSIN 0x40: non-verbose, with an argument-count byte of 5.
RecNonVerbose == Rec(ECU1, 49, ECU1, Ext(64, 5, APP2, CON1), <<>>, <<0, 0, 0, 9, 1, 2>>, 0)
\* msg_length 0, below the header bytes; and msg_length above the record's length.
RecShortLen == Rec(ECU1, 53, ECU1, Ext(65, 1, APP1, CON1), <<Arg("String", 0, Hello)>>, <<>>, -33)
RecLongLen == Rec(ECU1, 32, <<>>, None, <<>>, <<9, 0, 0, 0>>, 3)
\* A string whose length prefix reaches 37 bytes beyond its record.
RecStrOverrun == Rec(ECU1, 53, ECU1, Ext(65, 1, APP1, CON1), <<Arg("String", 37, Foo)>>, <<>>, 0)
\* A storage ECU id that is not UTF-8.
RecBadUtf8 == Rec(<<255, 67, 85, 49>>, 32, <<>>, None, <<>>, <<9, 0, 0, 0>>, 0)

Records == {RecHello, RecId42, RecNoExt, RecUnsupported, RecTwoStrings, RecNonVerbose,
            RecShortLen, RecLongLen, RecStrOverrun}

\* What may follow the last record: nothing, seven bytes of garbage, the first
\* seven bytes of a further record, a record that does not start with the storage
\* pattern, or a record that cannot be decoded.
Tails == {<<>>, <<1, 2, 3, 4, 5, 6, 7>>, SubSeq(EncRecord(RecHello), 1, 7),
          <<69>> \o Tail(EncRecord(RecHello)), EncRecord(RecBadUtf8)}

\* The sequences of at most n elements of set.
RECURSIVE SeqsUpTo(_, _)
SeqsUpTo(set, n) ==
  IF n = 0 THEN {<<>>}
  ELSE LET shorter == SeqsUpTo(set, n - 1) IN
       shorter \cup {Append(q, x) : q \in {y \in shorter : Len(y) = n - 1}, x \in set}

Files == {[records |-> q, tail |-> t] : q \in SeqsUpTo(Records, MaxRecords), t \in Tails}

\* Files for the argument decoder: a verbose record of at most MaxArgs arguments of
\* every kind (the last one a string whose length prefix reaches beyond the file),
\* in either byte order, followed by a second record.
ArgKinds ==
  {Arg("String", 0, Hello \o <<0>>), Arg("TraceData", 0, Foo), Arg("Bool", 1, <<>>),
   Arg("UInt8", 7, <<>>), Arg("SInt16", 65534, <<>>),
   Arg("Float", 0, <<>>), Arg("Array", 0, <<>>), Arg("Raw", 0, <<>>), Arg("Struct", 0, <<>>),
   Arg("Reserved", 0, <<>>), Arg("UndefinedLength", 0, <<>>), Arg("String", 200, Foo)}

RecArgs(htyp, args) == Rec(ECU1, htyp, ECU1, Ext(65, Len(args), APP1, CON1), args, <<>>, 0)

ArgFiles ==
  {[records |-> <<RecArgs(htyp, args), RecHello>>, tail |-> <<>>] :
     htyp \in {53, 33}, args \in SeqsUpTo(ArgKinds, MaxArgs)}

\* Files for the projection.  RecMulti has a string that three patterns match, a
\* second string that matches too and ends with a delimiter, and an empty string.
HelloId7No8 == S(<<"h", "e", "l", "l", "o", " ", "i", "d", "=", "7", " ", "n", "o", "=", "8">>)
Id9Semicolon == S(<<"i", "d", "=", "9", ";">>)

RecMulti ==
  Rec(ECU1, 53, ECU1, Ext(65, 4, APP1, CON1),
      <<Arg("String", 0, HelloId7No8), Arg("Bool", 1, <<>>),
        Arg("String", 0, Id9Semicolon \o <<0>>), Arg("String", 0, <<0>>)>>, <<>>, 0)

OutRecords == {RecHello, RecTwoStrings, RecUnsupported, RecMulti}

OutFiles ==
  {[records |-> q, tail |-> t] :
     q \in SeqsUpTo(OutRecords, MaxRecords), t \in {<<>>, <<1, 2, 3, 4, 5, 6, 7>>}}

(***************************************************************************)
(* Configurations (src/config.rs): a sequence of filter blocks.            *)
(***************************************************************************)
Block(ecu_id, app_id, context_id, patterns, out) ==
  [ecu_id |-> ecu_id, app_id |-> app_id, context_id |-> context_id,
   patterns |-> patterns, output |-> out]

StdoutCfg(enabled, delimiter, format) ==
  Some([csv |-> None,
        stdout |-> Some([enabled |-> enabled, delimiter |-> delimiter, format |-> format])])

\* A configuration block whose only sink is a csv file.
CsvCfg(delimiter) == Some([csv |-> Some([delimiter |-> delimiter, format |-> None]), stdout |-> None])

Comma == Code(",")
Semicolon == Code(";")
Space == Code(" ")
Tab == 9
Colon == Code(":")
Bar == Code("|")
Hash == Code("#")

\* str::is_ascii
is_ascii(id) == \A i \in 1..Len(id) : id[i] < 128

\* config::validate_id
validate_id(id) == IsSome(id) => (is_ascii(Unwrap(id)) /\ Len(Unwrap(id)) <= 4)

\* config::Csv::is_valid
CsvIsValid(csv) == csv.delimiter \in {Comma, Semicolon, Space, Tab, Colon, Bar}

\* config::Stdout::is_valid
StdoutIsValid(stdout_cfg) == IF stdout_cfg.enabled THEN TRUE ELSE TRUE

\* config::Output::is_valid
OutputIsValid(out) ==
  /\ IsSome(out.csv) => CsvIsValid(Unwrap(out.csv))
  /\ IsSome(out.stdout) => StdoutIsValid(Unwrap(out.stdout))

\* config::Filter::is_valid
FilterIsValid(block) ==
  /\ validate_id(block.ecu_id)
  /\ validate_id(block.app_id)
  /\ validate_id(block.context_id)
  /\ IsSome(block.output) => OutputIsValid(Unwrap(block.output))

\* config::Config::is_valid
ConfigIsValid(config) == \A i \in 1..Len(config) : FilterIsValid(config[i])

FmtAll == S(<<"e", "c", "u", ",", "a", "p", "p", ",", "c", "t", "x", ",",
              "p", "a", "y", "l", "o", "a", "d">>)
FmtN == S(<<"<", "n", ">">>)
FmtMixed == S(<<"e", "c", "u", ";", "<", "n", ">", ";", "p", "a", "y", "l", "o", "a", "d">>)
FmtN1 == S(<<"<", "n", "1", ">">>)
FmtTag == S(<<"<", "b", ">", ",", "<", "n", ">">>)
FmtX == S(<<"<", "x", ">">>)

PatId == S(<<"i", "d", "=", "(", "?", "P", "<", "n", ">", "\\", "d", "+", ")">>)
PatHello == S(<<"h", "e", "l", "l", "o">>)
PatIdN1 == S(<<"i", "d", "=", "(", "?", "P", "<", "n", "1", ">", "\\", "d", "+", ")">>)
PatTag == S(<<"<", "b", ">", "=", "(", "?", "P", "<", "n", ">", "\\", "d", "+", ")">>)

CfgNone == <<>>
CfgPlain == <<Block(None, None, None, None, StdoutCfg(TRUE, Comma, FmtAll))>>
CfgEcu2 == <<Block(Some(ECU2), None, None, None, StdoutCfg(TRUE, Comma, FmtAll))>>
CfgApp1 == <<Block(None, Some(APP1), None, None, StdoutCfg(TRUE, Comma, FmtAll))>>
CfgIds == <<Block(Some(ECU1), Some(APP1), Some(CON1), Some(<<PatId>>), StdoutCfg(FALSE, Comma, FmtN))>>
CfgPatId == <<Block(None, None, None, Some(<<PatId>>), StdoutCfg(TRUE, Comma, FmtN))>>
CfgPatterns ==
  <<Block(None, None, None, Some(<<PatHello, PatId>>), StdoutCfg(TRUE, Semicolon, FmtMixed))>>
CfgDigitName == <<Block(None, None, None, Some(<<PatIdN1>>), StdoutCfg(TRUE, Comma, FmtN1))>>
CfgTag == <<Block(None, None, None, Some(<<PatTag>>), StdoutCfg(TRUE, Comma, FmtTag))>>
CfgUnknownName == <<Block(None, None, None, Some(<<PatId>>), StdoutCfg(TRUE, Comma, FmtX))>>
CfgNoPatterns == <<Block(None, None, None, None, StdoutCfg(TRUE, Comma, FmtN))>>
CfgTwoBlocks ==
  <<Block(Some(ECU1), None, None, None, StdoutCfg(TRUE, Comma, FmtAll)),
    Block(None, Some(APP2), None, None, None)>>

Configs == {CfgNone, CfgPlain, CfgEcu2, CfgApp1, CfgIds, CfgPatId, CfgPatterns, CfgDigitName,
            CfgTag, CfgUnknownName, CfgNoPatterns, CfgTwoBlocks}

ArgConfigs == {CfgNone, CfgPlain, CfgEcu2, CfgPatterns, CfgUnknownName}

\* Configurations for the projection: one, three and one pattern, each with one
\* output format; then configurations that validation has to look at: identifiers
\* that are too long or not ASCII, and sinks with the delimiters '#' and tab.
FmtPayload == S(<<"p", "a", "y", "l", "o", "a", "d">>)
FmtEcuPayload == S(<<"e", "c", "u", "#", "p", "a", "y", "l", "o", "a", "d">>)
PatNo == S(<<"n", "o", "=", "(", "?", "P", "<", "n", ">", "\\", "d", "+", ")">>)

CfgCapOnly ==
  <<Block(None, None, None, Some(<<PatHello, PatNo, PatId>>), StdoutCfg(TRUE, Comma, FmtN))>>
CfgPayloadOnly ==
  <<Block(None, None, None, Some(<<PatId>>), StdoutCfg(TRUE, Semicolon, FmtPayload))>>
CfgLongId == <<Block(Some(ECU1 \o <<Code("2")>>), None, None, None, None)>>
CfgNonAscii == <<Block(None, Some(<<195, 164>>), None, None, None)>>
CfgCsvHash == <<Block(None, None, None, None, CsvCfg(Hash))>>
CfgCsvTab == <<Block(None, None, None, None, CsvCfg(Tab))>>
CfgStdoutHash ==
  <<Block(None, None, None, Some(<<PatId>>), StdoutCfg(TRUE, Hash, FmtEcuPayload))>>

CfgEcu2Mixed ==
  <<Block(Some(ECU2), None, None, Some(<<PatHello, PatId>>), StdoutCfg(TRUE, Semicolon, FmtMixed))>>

OutConfigs == {CfgPatterns, CfgCapOnly, CfgPayloadOnly, CfgEcu2, CfgUnknownName,
               CfgLongId, CfgNonAscii, CfgCsvHash, CfgCsvTab, CfgStdoutHash, CfgEcu2Mixed}

(***************************************************************************)
(* The program: run() builds the filter set and the output descriptor,     *)
(* then run_dlt iterates the file: next(), the three filters, the loop     *)
(* body.  pc is the position; stdout holds the lines of run_dlt's loop,    *)
(* each [rec, kind, text] with rec the number of the message it is for.    *)
(***************************************************************************)
Line(n, kind, text) == [rec |-> n, kind |-> kind, text |-> text]

Init ==
  /\ cfg \in Configs
  /\ input_file \in Files
  /\ data = Encode(input_file)
  /\ index = 0
  /\ filters = FilterNew
  /\ output = None
  /\ pc = "run"
  /\ msg = None
  /\ start_index = 0
  /\ rec = 0
  /\ captures = None
  /\ stdout = <<>>
  /\ panic = ""

\* run(): the configuration is accepted and run_dlt starts at index 0.
Run ==
  /\ pc = "run"
  /\ ConfigIsValid(cfg)
  /\ LET r == RunBlocks(cfg, 1, FilterNew, None) IN
     /\ ~r.exit
     /\ filters' = r.filters
     /\ output' = r.output
  /\ pc' = "next"
  /\ UNCHANGED <<input_file, cfg, data, index, msg, start_index, rec, captures, stdout, panic>>

\* run(): read_config or Output::from_filter ends the process with exit code 1.
RunExit ==
  /\ pc = "run"
  /\ (~ConfigIsValid(cfg) \/ RunBlocks(cfg, 1, FilterNew, None).exit)
  /\ pc' = "exit"
  /\ UNCHANGED <<input_file, cfg, data, index, filters, output, msg, start_index, rec, captures, stdout, panic>>

\* TraceDataIter::next: Some(self.read_message()).
IterNextSome ==
  /\ pc = "next"
  /\ index < Len(data)
  /\ \E overflow_checks \in BOOLEAN :
       LET r == read_message(data, index, overflow_checks) IN
       /\ r.panic = ""
       /\ msg' = Some(r.message)
       /\ index' = r.index
       /\ start_index' = r.start_index
  /\ rec' = rec + 1
  /\ pc' = "filter"
  /\ UNCHANGED <<input_file, cfg, data, filters, output, captures, stdout, panic>>

\* TraceDataIter::next: read_message panics and the process aborts.
IterNextPanic ==
  /\ pc = "next"
  /\ index < Len(data)
  /\ \E overflow_checks \in BOOLEAN :
       LET r == read_message(data, index, overflow_checks) IN
       /\ r.panic # ""
       /\ panic' = r.panic
  /\ pc' = "panicked"
  /\ UNCHANGED <<input_file, cfg, data, index, filters, output, msg, start_index, rec, captures, stdout>>

\* TraceDataIter::next: None, the for loop and run_dlt end.
IterNextNone ==
  /\ pc = "next"
  /\ ~(index < Len(data))
  /\ pc' = "done"
  /\ UNCHANGED <<input_file, cfg, data, index, filters, output, msg, start_index, rec, captures, stdout, panic>>

\* The conjunction of the three .filter() adaptors of run_dlt.
PassesFilters(f, m) == filter_ecu_id(f, m) /\ filter_app_id(f, m) /\ filter_context_id(f, m)

FilterPass ==
  /\ pc = "filter"
  /\ PassesFilters(filters, Unwrap(msg))
  /\ pc' = "body"
  /\ UNCHANGED <<input_file, cfg, data, index, filters, output, msg, start_index, rec, captures, stdout, panic>>

FilterReject ==
  /\ pc = "filter"
  /\ ~PassesFilters(filters, Unwrap(msg))
  /\ pc' = "next"
  /\ UNCHANGED <<input_file, cfg, data, index, filters, output, msg, start_index, rec, captures, stdout, panic>>

\* The lines the loop body of run_dlt prints for message m with captures c.
BodyLines(n, m, c, out) ==
  IF IsSome(c)
  THEN <<Line(n, "cap", <<>>), Line(n, "output", <<>>)>>
       \o (IF IsSome(out)
           THEN <<Line(n, "formatted", FormattedOut(Unwrap(out), m, Unwrap(c)))>> ELSE <<>>)
  ELSE <<Line(n, "message", <<>>)>>

\* A writer that puts the new lines in front of the lines written so far.
println_in_front(out, lines) == lines \o out

\* println!: the lines are written after the lines written so far.
println(out, lines) == out \o lines

\* The loop body of run_dlt for the message that passed the filters.
Body ==
  /\ pc = "body"
  /\ captures' = find_patterns(filters, Unwrap(msg))
  /\ stdout' = println(stdout, BodyLines(rec, Unwrap(msg), captures', output))
  /\ pc' = "next"
  /\ UNCHANGED <<input_file, cfg, data, index, filters, output, msg, start_index, rec, panic>>

Next ==
  \/ Run
  \/ RunExit
  \/ IterNextSome
  \/ IterNextPanic
  \/ IterNextNone
  \/ FilterPass
  \/ FilterReject
  \/ Body

Spec == Init /\ [][Next]_vars

\* The same program on the files of the argument decoder.
InitArgs ==
  /\ cfg \in ArgConfigs
  /\ input_file \in ArgFiles
  /\ data = Encode(input_file)
  /\ index = 0
  /\ filters = FilterNew
  /\ output = None
  /\ pc = "run"
  /\ msg = None
  /\ start_index = 0
  /\ rec = 0
  /\ captures = None
  /\ stdout = <<>>
  /\ panic = ""

SpecArgs == InitArgs /\ [][Next]_vars

\* The same program on the configurations and files of the projection.
InitOut ==
  /\ cfg \in OutConfigs
  /\ input_file \in OutFiles
  /\ data = Encode(input_file)
  /\ index = 0
  /\ filters = FilterNew
  /\ output = None
  /\ pc = "run"
  /\ msg = None
  /\ start_index = 0
  /\ rec = 0
  /\ captures = None
  /\ stdout = <<>>
  /\ panic = ""

SpecOut == InitOut /\ [][Next]_vars

(***************************************************************************)
(* The decoders of one argument on their own.  Either data is a type-info  *)
(* word (the four bytes, most significant first) that Type::from           *)
(* classifies, or data is one integer argument, the type-info and the      *)
(* value x laid out in the byte order of input_file, followed by one more  *)
(* byte, that read_argument reads at index 0.  Or data is the length       *)
(* prefix and the bytes of one text, which read_string or read_trace_info  *)
(* reads at index 0; or a standard header with its optional fields, which  *)
(* read_standard_header reads at index 0.                                  *)
(***************************************************************************)
TypeWords ==
  {<<b3, b2, b1, 16 * k + l>> :
     b3 \in {0, 255}, b2 \in {0, 255}, b1 \in 0..255, k \in 0..15, l \in {0, 3}}

IntLengths == {1, 2, 4, 8, 16}

\* The TYLE value of a length in bytes.
Tyle(len) == CASE len = 1 -> 1 [] len = 2 -> 2 [] len = 4 -> 3 [] len = 8 -> 4 [] len = 16 -> 5

IntValues(len) ==
  {[i \in 1..len |-> i], [i \in 1..len |-> 255], [i \in 1..len |-> 0],
   [i \in 1..len |-> IF i = 1 THEN 128 ELSE 0], [i \in 1..len |-> IF i = len THEN 1 ELSE 0]}

\* The bytes of word w, most significant first, in the given byte order.
InOrder(be, w) == IF be THEN w ELSE [i \in 1..Len(w) |-> w[Len(w) + 1 - i]]

IntInputs ==
  {[signed |-> sg, be |-> be, x |-> x] :
     sg \in BOOLEAN, be \in BOOLEAN, x \in UNION {IntValues(len) : len \in IntLengths}}

EncInt(in) ==
  InOrder(in.be, <<0, 0, 0, (IF in.signed THEN TYPE_INFO_INT_BIT_MASK ELSE TYPE_INFO_UINT_BIT_MASK)
                            + Tyle(Len(in.x))>>)
  \o InOrder(in.be, in.x) \o <<170>>

\* Texts with NUL bytes at the end, at the start, inside, and nowhere.
Texts == {<<>>, <<0>>, Foo, Foo \o <<0>>, Foo \o <<0, 0>>, <<0>> \o Foo \o <<0>>,
          <<Code("f"), 0, Code("o")>>, Hello \o <<0>>}

TextInputs ==
  {[trace |-> tr, be |-> be, text |-> t] : tr \in BOOLEAN, be \in BOOLEAN, t \in Texts}

EncText(in) == U16Bytes(in.be, Len(in.text)) \o in.text \o <<170>>

\* Standard headers: every HTYP of the six low bits; the optional fields have
\* different contents.
SessionIdBytes == <<0, 0, 0, 5>>
TimestampBytes == <<0, 0, 0, 100>>

EncStandard(htyp) ==
  <<htyp, 7, 1, 2>>
  \o (IF is_bit_set(htyp, HTYP_ECU_ID_BIT_MASK) THEN ECU1 ELSE <<>>)
  \o (IF is_bit_set(htyp, HTYP_SESSION_ID_BIT_MASK) THEN SessionIdBytes ELSE <<>>)
  \o (IF is_bit_set(htyp, HTYP_TIMESTAMP_BIT_MASK) THEN TimestampBytes ELSE <<>>)
  \o <<170>>

InitPure ==
  /\ \/ /\ pc = "type"
        /\ data \in TypeWords
        /\ input_file = data
     \/ /\ pc = "int"
        /\ input_file \in IntInputs
        /\ data = EncInt(input_file)
     \/ /\ pc = "text"
        /\ input_file \in TextInputs
        /\ data = EncText(input_file)
     \/ /\ pc = "standard"
        /\ input_file \in 0..63
        /\ data = EncStandard(input_file)
  /\ cfg = <<>>
  /\ index = 0
  /\ filters = FilterNew
  /\ output = None
  /\ msg = None
  /\ start_index = 0
  /\ rec = 0
  /\ captures = None
  /\ stdout = <<>>
  /\ panic = ""

\* Type::from(type_info)
TypeOf ==
  /\ pc = "type"
  /\ msg' = Some(TypeFrom(data))
  /\ pc' = "typed"
  /\ UNCHANGED <<input_file, cfg, data, index, filters, output, start_index, rec, captures, stdout, panic>>

\* PayloadIter::read_argument at index 0.
ReadArgument ==
  /\ pc = "int"
  /\ LET r == read_argument(data, index, input_file.be) IN
     /\ r.panic = ""
     /\ index' = r.index
     /\ msg' = r.value
  /\ pc' = "read"
  /\ UNCHANGED <<input_file, cfg, data, filters, output, start_index, rec, captures, stdout, panic>>

\* PayloadIter::read_string / read_trace_info at index 0.
ReadText ==
  /\ pc = "text"
  /\ LET r == IF input_file.trace THEN read_trace_info(data, index, input_file.be)
              ELSE read_string(data, index, input_file.be)
     IN  /\ r.panic = ""
         /\ index' = r.index
         /\ msg' = r.value
  /\ pc' = "text read"
  /\ UNCHANGED <<input_file, cfg, data, filters, output, start_index, rec, captures, stdout, panic>>

\* read_standard_header at index 0.
ReadStandardHeader ==
  /\ pc = "standard"
  /\ LET r == read_standard_header(data, index) IN
     /\ r.panic = ""
     /\ index' = r.index
     /\ msg' = Some(r.hdr)
  /\ pc' = "standard read"
  /\ UNCHANGED <<input_file, cfg, data, filters, output, start_index, rec, captures, stdout, panic>>

NextPure ==
  \/ TypeOf
  \/ ReadArgument
  \/ ReadText
  \/ ReadStandardHeader

SpecPure == InitPure /\ [][NextPure]_vars

(***************************************************************************)
(* Properties                                                              *)
(***************************************************************************)
StorageHeaderSize == DLT_PATTERN_SIZE + SIZE_U32 + SIZE_U32 + ECU_NAME_SIZE

\* The 16-bit big-endian length field of the standard header that starts at offset s.
MsgLengthAt(d, s) == d[s + 3] * 256 + d[s + 4]

\* C1: for every record read_message decodes, the iterator's offset after the call
\* is standard_start + msg_length, where standard_start is the offset right after
\* the record's 16-byte storage header and msg_length the big-endian length field
\* of its standard header, whatever the extended header and the argument decoder did.
C1_OffsetAfterRecord ==
  [][(pc = "next" /\ pc' = "filter") =>
       index' = (index + StorageHeaderSize) + MsgLengthAt(data, index + StorageHeaderSize)]_vars

\* A verbose record whose argument decoding stopped before its last argument has
\* been decoded, and another record follows.
C1_Witness ==
  /\ pc = "filter"
  /\ IsSome(Unwrap(msg).extended_header)
  /\ is_verbose(Unwrap(Unwrap(msg).extended_header))
  /\ Len(Unwrap(msg).payload) < Unwrap(Unwrap(msg).extended_header).num_of_args
  /\ index < Len(data)

\* The bytes left at offset idx are a proper prefix of a storage header: fewer than
\* a storage header, and as far as they go they agree with the storage pattern.
EndsInStorageHeader(d, idx) ==
  /\ 0 < Len(d) - idx
  /\ Len(d) - idx < StorageHeaderSize
  /\ \A i \in 1..DLT_PATTERN_SIZE : idx + i <= Len(d) => d[idx + i] = DLT_STORAGE_START_PATTERN[i]

\* C2: when the buffer ends in the middle of a record, iteration ends cleanly after
\* the complete records before it: no read beyond the buffer, no crash.
C2_TruncatedTailEndsCleanly ==
  EndsInStorageHeader(data, index) => pc # "panicked"

\* C3: a record with a whole storage header whose first four bytes differ from the
\* storage pattern is an error outcome of the iteration, not a crash.
C3_BadMagicIsNotACrash ==
  (InRange(data, index, index + StorageHeaderSize)
   /\ Slice(data, index, index + DLT_PATTERN_SIZE) # DLT_STORAGE_START_PATTERN)
  => pc # "panicked"

\* C4: for each identifier filter configured with value v, a message that passed
\* the three filters carries the corresponding header field and that field equals v.
C4_SurvivorCarriesFilterValue ==
  pc = "body" =>
    LET m == Unwrap(msg) IN
    /\ IsSome(filters.EcuId) => m.storage_header.ecu = Unwrap(filters.EcuId)
    /\ IsSome(filters.AppId) =>
         (IsSome(m.extended_header) /\ Unwrap(m.extended_header).app_id = Unwrap(filters.AppId))
    /\ IsSome(filters.ContextId) =>
         (IsSome(m.extended_header)
          /\ Unwrap(m.extended_header).context_id = Unwrap(filters.ContextId))

\* C5: with an AppId or ContextId filter configured, a message without an extended
\* header is rejected: it never reaches the loop body.
C5_NoExtendedHeaderRejected ==
  (pc = "body" /\ (IsSome(filters.AppId) \/ IsSome(filters.ContextId)))
  => IsSome(Unwrap(msg).extended_header)

\* Some string argument of m matches some configured pattern.
HasMatch(f, m) ==
  \E i \in 1..Len(m.payload) :
     /\ m.payload[i].kind = "String"
     /\ \E k \in 1..Len(Unwrap(f.Patterns)) : IsMatch(Unwrap(f.Patterns)[k], m.payload[i].str)

\* C6: with a Patterns filter configured, a message none of whose string arguments
\* matches any pattern is dropped: it produces no output line.
C6_NoMatchDropsMessage ==
  (IsSome(filters.Patterns) /\ IsSome(msg) /\ ~HasMatch(filters, Unwrap(msg)))
  => \A j \in 1..Len(stdout) : stdout[j].rec = rec => stdout[j].kind # "formatted"

\* C7: with no filter of any kind and an output descriptor, every decoded message is
\* projected into one output line.
C7_NoFilterProjectsEveryMessage ==
  (filters = FilterNew /\ IsSome(output) /\ rec > 0 /\ pc \in {"next", "done", "panicked"})
  => \E j \in 1..Len(stdout) : stdout[j].rec = rec /\ stdout[j].kind = "formatted"

\* C8: with no Patterns filter, find_patterns returns "no match" for every message,
\* and the driver passes the message through (prints it) without projecting it.
C8_NoPatternsPassThrough ==
  ~IsSome(filters.Patterns) =>
    /\ captures = None
    /\ \A j \in 1..Len(stdout) : stdout[j].kind = "message"
    /\ (pc \in {"next", "done", "panicked"} /\ rec > 0 /\ PassesFilters(filters, Unwrap(msg)))
       => \E j \in 1..Len(stdout) : stdout[j] = Line(rec, "message", <<>>)

\* A message went through the loop body with an output descriptor and no Patterns filter.
C8_Witness ==
  /\ ~IsSome(filters.Patterns)
  /\ IsSome(output)
  /\ pc = "next"
  /\ \E j \in 1..Len(stdout) : stdout[j].rec = rec

\* The arguments the decoder supports, and those of a record that come before the
\* first one it does not.
Supported(a) == a.t \in {"String", "TraceData", "Bool", "UInt8", "UInt16", "SInt16"}

RECURSIVE SupportedPrefix(_)
SupportedPrefix(args) ==
  IF args # <<>> /\ Supported(Head(args))
  THEN <<Head(args)>> \o SupportedPrefix(Tail(args)) ELSE <<>>

IsNotNul(b) == b # 0
StripNul(s) == SelectSeq(s, IsNotNul)

\* Value v is the decoding of argument a.
SameArg(v, a) ==
  /\ v.kind = a.t
  /\ a.t \in {"String", "TraceData"} => StripNul(v.str) = StripNul(a.text)
  /\ a.t \in {"Bool", "UInt8"} => v.num = <<a.n>>
  /\ a.t \in {"UInt16", "SInt16"} => v.num = <<a.n \div 256, a.n % 256>>

WellFormed(a) == a.t \in {"String", "TraceData"} => a.n = 0

\* C9: an unsupported or undecodable argument aborts the argument iteration of its
\* message only: the message goes on to the filters and the loop body with exactly
\* the arguments decoded before it, in order, and the iterator continues with the
\* next record at standard_start + msg_length.
C9_UnsupportedAbortsArguments ==
  LET first == input_file.records[1]
      before == SupportedPrefix(first.args)
  IN  (\A i \in 1..Len(before) : WellFormed(before[i])) =>
        /\ pc # "panicked"
        /\ pc = "done" => rec = Len(input_file.records)
        /\ rec = 1 =>
             /\ Len(Unwrap(msg).payload) = Len(before)
             /\ \A i \in 1..Len(before) : SameArg(Unwrap(msg).payload[i], before[i])
             /\ index = start_index + MsgLengthAt(data, start_index)
        /\ rec = 2 =>
             /\ start_index = Len(EncRecord(first)) + StorageHeaderSize
             /\ Unwrap(msg).payload = <<Value("String", <<>>, Hello)>>

\* The record after one whose second argument is a float is in the loop body.
C9_Witness ==
  /\ pc = "body"
  /\ rec = 2
  /\ Len(input_file.records[1].args) = 2
  /\ input_file.records[1].args[1].t = "UInt8"
  /\ input_file.records[1].args[2].t = "Float"

\* The names of the (?P<name>...) groups of the patterns of a filter block.
DeclaredNames(block) ==
  IF IsSome(block.patterns)
  THEN {Unwrap(RegexNew(Unwrap(block.patterns)[i]).name) :
          i \in {k \in 1..Len(Unwrap(block.patterns)) :
                   IsSome(RegexNew(Unwrap(block.patterns)[k]).name)}}
  ELSE {}

\* The enabled stdout descriptor of the block names a capture that no pattern declares.
HasUndeclaredCapture(block) ==
  /\ IsSome(block.output)
  /\ IsSome(Unwrap(block.output).stdout)
  /\ Unwrap(Unwrap(block.output).stdout).enabled
  /\ LET so == Unwrap(Unwrap(block.output).stdout)
         fields == FilterMapFields(Split(so.format, so.delimiter, <<>>), 1)
     IN  \E i \in 1..Len(fields) :
            fields[i].kind = "Capture" /\ fields[i].name \notin DeclaredNames(block)

\* C10: Output::from_filter rejects the descriptor (the process exits before any
\* message is decoded) exactly when some Capture(name) names a group that no pattern
\* of the block declares as (?P<name>...), for any name the regex syntax allows.
C10_CaptureValidation ==
  pc # "run" => ((pc = "exit") <=> (\E i \in 1..Len(cfg) : HasUndeclaredCapture(cfg[i])))

\* The loop body has just run for the current message.
BodyRan == pc = "next" /\ stdout # <<>> /\ stdout[Len(stdout)].rec = rec

\* The loop body has just projected the current message; ProjectedLine is its line.
Projected ==
  BodyRan /\ IsSome(captures) /\ IsSome(output) /\ stdout[Len(stdout)].kind = "formatted"

ProjectedLine == stdout[Len(stdout)].text

\* C11: the projected line is the concatenation of the fields' renderings, each
\* followed by the delimiter, with exactly one trailing delimiter removed, also when
\* the last rendered value is empty or ends with the delimiter character.
C11_OneTrailingDelimiterRemoved ==
  Projected =>
    LET out == Unwrap(output)
        full == RenderFields(out.fields, Unwrap(msg), Unwrap(captures), out.delimiter, 1)
    IN  IF full = <<>> THEN ProjectedLine = <<>>
        ELSE ProjectedLine \o <<out.delimiter>> = full

\* C12: the Ecu field renders the standard header's ECU id when the standard header
\* carries one and the storage header's ECU id otherwise.
C12_EcuFallsBackToStorage ==
  (Projected /\ Unwrap(output).fields[1].kind = "Ecu") =>
    LET m == Unwrap(msg)
        e == IF IsSome(m.standard_header.ecu_id) THEN Unwrap(m.standard_header.ecu_id)
             ELSE m.storage_header.ecu
    IN  /\ OccursAt(ProjectedLine, e, 1)
        /\ Len(ProjectedLine) > Len(e) => ProjectedLine[Len(e) + 1] = Unwrap(output).delimiter

\* Each value followed by the delimiter.
RECURSIVE JoinEach(_, _)
JoinEach(vals, d) ==
  IF vals = <<>> THEN <<>> ELSE Head(vals) \o <<d>> \o JoinEach(Tail(vals), d)

\* line is full without some of its trailing delimiters.
IsTrimmed(line, full, d) ==
  /\ Len(line) <= Len(full)
  /\ SubSeq(full, 1, Len(line)) = line
  /\ \A k \in (Len(line) + 1)..Len(full) : full[k] = d

\* The values of the group name in the bundles that have it, in bundle order.
RECURSIVE CaptureValues(_, _)
CaptureValues(bundles, name) ==
  IF bundles = <<>> THEN <<>>
  ELSE (IF Head(bundles).name = Some(name) THEN <<Head(bundles).val>> ELSE <<>>)
       \o CaptureValues(Tail(bundles), name)

\* C13: for a Capture(name) field the projector writes, for each capture bundle in
\* order, the value of the group name followed by the delimiter; a bundle without
\* that group contributes no value and no delimiter.
C13_CaptureFieldPerBundle ==
  (Projected /\ Len(Unwrap(output).fields) = 1 /\ Unwrap(output).fields[1].kind = "Capture") =>
    LET out == Unwrap(output) IN
    IsTrimmed(ProjectedLine,
              JoinEach(CaptureValues(Unwrap(captures), out.fields[1].name), out.delimiter),
              out.delimiter)

\* Three bundles, the first without the group, the other two with a value each.
C13_Witness ==
  /\ Projected
  /\ Unwrap(output).fields = <<Capture(<<Code("n")>>)>>
  /\ Len(Unwrap(captures)) = 3
  /\ ~IsSome(Unwrap(captures)[1].name)
  /\ ProjectedLine = <<Code("8"), Comma, Code("7")>>

\* The string-typed arguments of a payload, in argument order.
RECURSIVE StringArgs(_)
StringArgs(payload) ==
  IF payload = <<>> THEN <<>>
  ELSE (IF Head(payload).kind = "String" THEN <<Head(payload).str>> ELSE <<>>)
       \o StringArgs(Tail(payload))

C15_LinesInFileOrder ==
  /\ \A i, j \in 1..Len(stdout) : i < j => stdout[i].rec <= stdout[j].rec
  /\ \A j \in 1..Len(stdout) : stdout[j].rec <= rec
  /\ pc \in {"filter", "body"} => \A j \in 1..Len(stdout) : stdout[j].rec < rec

\* Two records passed the filters; the second has been decoded after the first was
\* written and is written after it.
C15_Witness ==
  /\ pc = "next"
  /\ rec = 2
  /\ Len(stdout) >= 2
  /\ stdout[1].rec = 1
  /\ stdout[Len(stdout)].rec = 2

AllowedDelimiters == {Comma, Semicolon, Space, Tab, Colon, Bar}

\* The identifier is ASCII and at most four characters long.
IdOk(id) == IsSome(id) => (Len(Unwrap(id)) <= 4 /\ \A i \in 1..Len(Unwrap(id)) : Unwrap(id)[i] < 128)

\* Every sink of the block has a delimiter of the allowed set.
SinksOk(block) ==
  IsSome(block.output) =>
    /\ IsSome(Unwrap(block.output).csv) =>
         Unwrap(Unwrap(block.output).csv).delimiter \in AllowedDelimiters
    /\ IsSome(Unwrap(block.output).stdout) =>
         Unwrap(Unwrap(block.output).stdout).delimiter \in AllowedDelimiters

\* C16: a configuration with an identifier that is not ASCII or longer than four
\* characters, or with a csv or stdout sink whose delimiter is not one of
\* ',' ';' space tab ':' '|', never reaches message decoding.
C16_InvalidConfigRejected ==
  pc \notin {"run", "exit"} =>
    \A i \in 1..Len(cfg) :
       /\ IdOk(cfg[i].ecu_id) /\ IdOk(cfg[i].app_id) /\ IdOk(cfg[i].context_id)
       /\ SinksOk(cfg[i])

\* C17: when the verbose bit (bit 0) of the MSIN byte of an extended header is
\* clear the decoded argument count is 0 whatever the count byte is, and when it is
\* set the decoded count is that byte.
C17_ArgumentCountFollowsVerboseBit ==
  (rec > 0 /\ IsSome(Unwrap(msg).extended_header)) =>
    LET m == Unwrap(msg)
        at == start_index + m.standard_header.length
        msin == data[at + 1]
        noar == data[at + 2]
    IN  Unwrap(m.extended_header).num_of_args = (IF msin % 2 = 1 THEN noar ELSE 0)

\* A decoded non-verbose extended header whose count byte is not zero.
C17_Witness ==
  /\ pc = "filter"
  /\ IsSome(Unwrap(msg).extended_header)
  /\ ~is_verbose(Unwrap(Unwrap(msg).extended_header))
  /\ data[start_index + Unwrap(msg).standard_header.length + 2] = 5
  /\ Unwrap(Unwrap(msg).extended_header).num_of_args = 0

\* The argument of m that find_patterns answers from: the first string that some
\* pattern matches.
FirstMatching(f, m) ==
  CHOOSE i \in 1..Len(m.payload) :
    /\ m.payload[i].kind = "String"
    /\ \E k \in 1..Len(Unwrap(f.Patterns)) : IsMatch(Unwrap(f.Patterns)[k], m.payload[i].str)
    /\ \A j \in 1..(i - 1) :
         ~(/\ m.payload[j].kind = "String"
           /\ \E k \in 1..Len(Unwrap(f.Patterns)) :
                IsMatch(Unwrap(f.Patterns)[k], m.payload[j].str))

\* The bundles of string str: one per matching pattern, in pattern-index order.
BundlesOf(regexes, str) ==
  LET matching == {k \in 1..Len(regexes) : IsMatch(regexes[k], str)}
      nth(n) == CHOOSE k \in matching : Cardinality({j \in matching : j <= k}) = n
  IN  [n \in 1..Cardinality(matching) |-> Unwrap(RegexCaptures(regexes[nth(n)], str))]

\* C19: with a Patterns filter, find_patterns scans the string arguments in argument
\* order and stops at the first string that some pattern matches; the result is the
\* bundles of exactly that string, one per matching pattern in pattern-index order,
\* and later strings are not consulted.
C19_FirstMatchingStringDecides ==
  (BodyRan /\ IsSome(filters.Patterns) /\ HasMatch(filters, Unwrap(msg))) =>
    captures = Some(BundlesOf(Unwrap(filters.Patterns),
                              Unwrap(msg).payload[FirstMatching(filters, Unwrap(msg))].str))

\* A message whose first and third arguments are strings that both match: the three
\* bundles are those of the first string.
C19_Witness ==
  /\ BodyRan
  /\ IsSome(filters.Patterns)
  /\ Len(Unwrap(msg).payload) = 4
  /\ HasMatch(filters, [payload |-> <<Unwrap(msg).payload[1]>>])
  /\ HasMatch(filters, [payload |-> <<Unwrap(msg).payload[3]>>])
  /\ Len(Unwrap(captures)) = 3
  /\ Unwrap(captures)[3].val = <<Code("7")>>

IntKindName(signed, len) ==
  IF signed
  THEN CASE len = 1 -> "SInt8" [] len = 2 -> "SInt16" [] len = 4 -> "SInt32"
         [] len = 8 -> "SInt64" [] len = 16 -> "SInt128"
  ELSE CASE len = 1 -> "UInt8" [] len = 2 -> "UInt16" [] len = 4 -> "UInt32"
         [] len = 8 -> "UInt64" [] len = 16 -> "UInt128"

BitOf(w, k) == (w[4 - (k \div 8)] \div (2 ^ (k % 8))) % 2 = 1

TypeBits == <<4, 5, 6, 7, 8, 9, 10, 13, 14>>

TypeNames == <<"Bool", "Signed", "Unsigned", "Float", "Array", "String", "Raw", "TraceInfo",
               "Struct">>

\* C20: the kind of a type-info word is that of its first set bit in the order
\* BOOL (4), SINT (5), UINT (6), FLOA (7), ARAY (8), STRG (9), RAWD (10), TRAI (13),
\* STRU (14); the VARI and FIXP bits select nothing, and a word with none of the
\* nine bits is Reserved.
C20_FirstTypeBitDecides ==
  pc = "typed" =>
    LET set == {n \in 1..Len(TypeBits) : BitOf(data, TypeBits[n])} IN
    msg = Some(IF set = {} THEN "Reserved"
               ELSE TypeNames[CHOOSE n \in set : \A o \in set : n <= o])

\* A classified word with the STRG, VARI, TRAI and STRU bits and the reserved bits set.
C20_Witness ==
  /\ pc = "typed"
  /\ data = <<255, 255, 106, 3>>
  /\ msg = Some("String")

\* s without its trailing NUL bytes.
RECURSIVE WithoutTrailingNul(_)
WithoutTrailingNul(s) ==
  IF s # <<>> /\ s[Len(s)] = 0 THEN WithoutTrailingNul(SubSeq(s, 1, Len(s) - 1)) ELSE s

\* C21: a string or trace-info argument is read as a 16-bit length L in the
\* message byte order and exactly L bytes; the value is those bytes with only the
\* trailing NUL bytes removed, leading and interior NULs kept, and the payload
\* index advances by exactly 2 + L.
C21_TextKeepsLeadingNul ==
  pc = "text read" =>
    /\ msg = Some(Value(IF input_file.trace THEN "TraceData" ELSE "String", <<>>,
                        WithoutTrailingNul(input_file.text)))
    /\ index = SIZE_U16 + Len(input_file.text)

\* The number of the bits 2, 3 and 4 that are set in htyp.
OptionalFields(htyp) == ((htyp \div 4) % 2) + ((htyp \div 8) % 2) + ((htyp \div 16) % 2)

\* C22: read_standard_header reads HTYP, the counter and the big-endian msg_length,
\* then the ECU id (bit 2), the session id (bit 3) and the timestamp (bit 4) in this
\* order, each iff its HTYP bit is set; the recorded header length is
\* 4 + 4 * (number of these bits set) and the offset advances by that amount.
C22_StandardHeaderLayout ==
  pc = "standard read" =>
    LET h == Unwrap(msg) IN
    /\ h.htyp = input_file
    /\ h.counter = 7
    /\ h.msg_length = 258
    /\ h.ecu_id = (IF (input_file \div 4) % 2 = 1 THEN Some(ECU1) ELSE None)
    /\ h.session_id = (IF (input_file \div 8) % 2 = 1 THEN Some(SessionIdBytes) ELSE None)
    /\ h.timestamp = (IF (input_file \div 16) % 2 = 1 THEN Some(TimestampBytes) ELSE None)
    /\ h.length = 4 + 4 * OptionalFields(input_file)
    /\ index = h.length

\* A header with session id and timestamp and without ECU id has been read.
C22_Witness ==
  /\ pc = "standard read"
  /\ input_file = 24
  /\ Unwrap(msg).session_id = Some(SessionIdBytes)
  /\ Unwrap(msg).timestamp = Some(TimestampBytes)
  /\ index = 12

\* C23: iteration over a finite buffer ends: the offset never decreases, every
\* read_message that returns increases it by at least the 16 bytes of the storage
\* header, even when msg_length is 0, next() returns None as soon as the offset
\* is at or beyond the buffer's length, and so at most ceil(len/16) messages are
\* yielded.
C23_IterationEnds ==
  [][/\ index' >= index
     /\ (pc = "next" /\ pc' = "filter") =>
          /\ index < Len(data)
          /\ index' >= index + StorageHeaderSize
     /\ (pc = "next" /\ index >= Len(data)) => (pc' = "done" /\ rec' = rec)
     /\ rec' > 0 => StorageHeaderSize * (rec' - 1) < Len(data')]_vars

\* A record with msg_length 0 has been yielded: the offset is 16 bytes ahead.
C23_Witness ==
  /\ pc = "filter"
  /\ rec = 2
  /\ MsgLengthAt(data, start_index) = 0
  /\ index = start_index

\* Where the decoding of the record whose standard header starts at start ends:
\* the header bytes consumed and the end of the bytes the arguments were read from.
DecodeEnd(d, start) ==
  LET st == read_standard_header(d, start) IN
  IF has_extended_header(st.hdr)
  THEN LET ex == read_extended_header(d, st.index) IN
       [msg_length |-> st.hdr.msg_length,
        headers |-> st.hdr.length + ex.hdr.length,
        last |-> IF is_verbose(ex.hdr)
                 THEN new_verbose(d, ex.index, st.hdr.msg_length - st.hdr.length - ex.hdr.length,
                                  is_big_endian(st.hdr), ex.hdr.num_of_args).index
                 ELSE ex.index]
  ELSE [msg_length |-> st.hdr.msg_length, headers |-> st.hdr.length, last |-> st.index]

\* C24: every byte that a message's argument decoding reads lies inside the
\* message's own record, [standard_start, standard_start + msg_length): neither the
\* argument count nor a string's length prefix makes the decoder read the next
\* record's bytes, and msg_length is never below the header bytes consumed.
C24_ArgumentsStayInRecord ==
  pc = "filter" =>
    LET e == DecodeEnd(data, start_index) IN
    /\ e.msg_length - e.headers >= 0
    /\ e.last <= start_index + e.msg_length

\* C25: filter_ecu_id decides on the storage header's ECU id alone: with an
\* EcuId filter v a message passes iff storage_header.ecu equals v, whatever the
\* standard header's ecu_id is, and with no EcuId filter every message passes;
\* the Ecu output field is rendered from the standard header.
C25_EcuFilterOnStorageHeader ==
  [][/\ (pc = "filter" /\ pc' # "filter" /\ ~IsSome(filters.AppId) /\ ~IsSome(filters.ContextId)) =>
          ((pc' = "body") <=>
             (IsSome(filters.EcuId) => Unwrap(filters.EcuId) = Unwrap(msg).storage_header.ecu))
     /\ (Projected /\ Unwrap(output).fields[1].kind = "Ecu")' =>
          LET std == Unwrap(msg').standard_header
              e == IF IsSome(std.ecu_id) THEN Unwrap(std.ecu_id) ELSE NoneStr
          IN  /\ OccursAt(ProjectedLine', e, 1)
              /\ Len(ProjectedLine') > Len(e) =>
                   ProjectedLine'[Len(e) + 1] = Unwrap(output').delimiter]_vars

\* A message whose storage ECU is the filter's value and whose standard header
\* names another ECU has passed, and its line starts with the standard header's.
C25_Witness ==
  /\ Projected
  /\ filters.EcuId = Some(ECU2)
  /\ Unwrap(msg).storage_header.ecu = ECU2
  /\ Unwrap(msg).standard_header.ecu_id = Some(ECU1)
  /\ OccursAt(ProjectedLine, ECU1 \o <<Semicolon>>, 1)

====
